---- MODULE Spec2Model ----
(***************************************************************************)
(* Model of the rummy player of src/main.py: the module globals (hand,     *)
(* discard, move_history, draw_stats, discard_stats, epsilon) and the five *)
(* endpoints that read and write them (start_game, start_hand,             *)
(* update_2p_game, draw, lay_down), with process_events shared by the last *)
(* three.  Card tokens and event words are strings; a line of event text   *)
(* is the sequence of its space-separated words, an event text the         *)
(* sequence of its lines.                                                  *)
(***************************************************************************)
EXTENDS Integers, Sequences, FiniteSets, TLC

VARIABLES hand, discard, move_history, draw_stats, discard_stats, epsilon,
          resp, twin

vars == <<hand, discard, move_history, draw_stats, discard_stats, epsilon,
          resp, twin>>

(***************************************************************************)
(* Bound of the model.                                                     *)
(***************************************************************************)
\* most decisions recorded in a run: those in move_history and those counted
MaxMoves == 2

(***************************************************************************)
(* Program constants.                                                      *)
(***************************************************************************)
USER_NAME == "EvanH"

\* epsilon = 0.1, in hundredths; random.random() is drawn in hundredths too
EPSILON == 10

\* the 1e-5 of the win ratios is 1 / RATIO_SCALE
RATIO_SCALE == 100000

valid_actions == <<"draw stock", "draw discard">>

(***************************************************************************)
(* Strings.  TLC strings are atoms, so the characters of a token, their    *)
(* code points and the lower-casing are tables over the vocabulary.        *)
(***************************************************************************)
Cards == {"2D", "2H", "2S", "7C", "7D", "7H"}

Chars ==
    "2D" :> <<"2", "D">> @@ "2H" :> <<"2", "H">> @@ "2S" :> <<"2", "S">> @@
    "7C" :> <<"7", "C">> @@ "7D" :> <<"7", "D">> @@ "7H" :> <<"7", "H">>

CodePoint ==
    "2" :> 50 @@ "7" :> 55 @@ "C" :> 67 @@ "D" :> 68 @@ "H" :> 72 @@ "S" :> 83

\* card[0]
FirstChar(card) == Chars[card][1]

\* ch in card, for a one-character string ch
CharIn(ch, card) == \E i \in 1..Len(Chars[card]) : Chars[card][i] = ch

\* a < b for two strings, as Python compares them
StrLess(a, b) ==
    LET x == Chars[a]
        y == Chars[b]
        m == IF Len(x) < Len(y) THEN Len(x) ELSE Len(y)
    IN  \/ \E i \in 1..m : /\ \A j \in 1..(i - 1) : x[j] = y[j]
                           /\ CodePoint[x[i]] < CodePoint[y[i]]
        \/ /\ Len(x) < Len(y)
           /\ \A j \in 1..m : x[j] = y[j]

\* str.lower() of a word
Lower(w) ==
    CASE w = "EvanH" -> "evanh"
      [] w = "Opp" -> "opp"
      [] w = "2D" -> "2d"
      [] w = "2H" -> "2h"
      [] w = "2S" -> "2s"
      [] w = "7C" -> "7c"
      [] w = "7D" -> "7d"
      [] w = "7H" -> "7h"
      [] OTHER -> w

\* sub in w, for the words and the substrings the program looks for
Contains(w, sub) ==
    \/ w = sub
    \/ <<w, sub>> \in {<<"wins", "win">>, <<"loses", "lose">>}

\* sub in event_line
LineContains(line, sub) == \E i \in 1..Len(line) : Contains(line[i], sub)

\* (a + " " + b) in event_line
LineHasPhrase(line, a, b) ==
    \E i \in 1..(Len(line) - 1) : line[i] = a /\ line[i + 1] = b

\* sub in event.lower()
TextLowerContains(event_text, sub) ==
    \E k \in 1..Len(event_text) :
        \E i \in 1..Len(event_text[k]) : Contains(Lower(event_text[k][i]), sub)

(***************************************************************************)
(* list.sort(): insertion into a sorted list, repeated.                    *)
(***************************************************************************)
RECURSIVE InsertSorted(_, _)
InsertSorted(s, c) ==
    IF s = <<>> THEN <<c>>
    ELSE IF StrLess(c, Head(s)) THEN <<c>> \o s
    ELSE <<Head(s)>> \o InsertSorted(Tail(s), c)

RECURSIVE sort(_)
sort(s) == IF s = <<>> THEN <<>> ELSE InsertSorted(sort(Tail(s)), Head(s))

\* remove that takes every occurrence of x out of the list
RECURSIVE remove_all(_, _)
remove_all(s, x) ==
    IF s = <<>> THEN <<>>
    ELSE IF Head(s) = x THEN remove_all(Tail(s), x)
    ELSE <<Head(s)>> \o remove_all(Tail(s), x)

\* list.remove(x): the list without the first occurrence of x
RECURSIVE remove(_, _)
remove(s, x) ==
    IF s = <<>> THEN <<>>
    ELSE IF Head(s) = x THEN Tail(s)
    ELSE <<Head(s)>> \o remove(Tail(s), x)

\* list.pop(i), i counted from 1: the list without its i-th element
pop(s, i) == SubSeq(s, 1, i - 1) \o SubSeq(s, i + 1, Len(s))

(***************************************************************************)
(* The globals as one record, so that a handler is a function of them.     *)
(***************************************************************************)
Globals ==
    [hand |-> hand, discard |-> discard, move_history |-> move_history,
     draw_stats |-> draw_stats, discard_stats |-> discard_stats,
     epsilon |-> epsilon]

NoStats == [wins |-> 0, losses |-> 0]

(***************************************************************************)
(* process_events: each line of the event text, in order.                  *)
(***************************************************************************)
\* event_line.split(" ")[-1]
LastWord(line) == line[Len(line)]

\* process_line with discard.append(card) for discard.insert(0, card)
process_line_push_back(g, event_line) ==
    LET h1 == IF \/ LineHasPhrase(event_line, USER_NAME, "draws")
                 \/ LineHasPhrase(event_line, USER_NAME, "takes")
              THEN sort(Append(g.hand, LastWord(event_line)))
              ELSE g.hand
        d1 == IF LineContains(event_line, "discards")
              THEN Append(g.discard, LastWord(event_line))
              ELSE g.discard
        d2 == IF LineContains(event_line, "takes") /\ d1 # <<>>
              THEN Tail(d1)
              ELSE d1
    IN  [g EXCEPT !.hand = h1, !.discard = d2]

\* the body of the loop, for one line
process_line(g, event_line) ==
    LET h1 == IF \/ LineHasPhrase(event_line, USER_NAME, "draws")
                 \/ LineHasPhrase(event_line, USER_NAME, "takes")
              THEN sort(Append(g.hand, LastWord(event_line)))
              ELSE g.hand
        d1 == IF LineContains(event_line, "discards")
              THEN <<LastWord(event_line)>> \o g.discard
              ELSE g.discard
        d2 == IF LineContains(event_line, "takes") /\ d1 # <<>>
              THEN Tail(d1)
              ELSE d1
    IN  [g EXCEPT !.hand = h1, !.discard = d2]

RECURSIVE process_events(_, _)
process_events(g, event_text) ==
    IF event_text = <<>> THEN g
    ELSE process_events(process_line(g, Head(event_text)), Tail(event_text))

(***************************************************************************)
(* start_game and start_hand.  The argument is game_info.hand.split(" ").  *)
(***************************************************************************)
\* start_game that also starts the statistics afresh
start_game_reset(g, hand_words) ==
    [g EXCEPT !.hand = sort(hand_words), !.discard = <<>>,
              !.draw_stats = [a \in DOMAIN g.draw_stats |-> NoStats],
              !.discard_stats = <<>>]

start_game(g, hand_words) ==
    [g EXCEPT !.hand = sort(hand_words), !.discard = <<>>]

\* start_hand without hand.sort()
start_hand_unsorted(g, hand_words) == [g EXCEPT !.hand = hand_words]

start_hand(g, hand_words) ==
    [g EXCEPT !.hand = sort(hand_words)]

(***************************************************************************)
(* update_2p_game.                                                         *)
(***************************************************************************)
\* the outcome found in update_info.event.lower(), "none" for None
detect_outcome(event_text) ==
    IF TextLowerContains(event_text, "win") THEN "win"
    ELSE IF \/ TextLowerContains(event_text, "loss")
            \/ TextLowerContains(event_text, "lose")
    THEN "loss"
    ELSE "none"

\* bump with the reward ignored: a loss counted as a win
bump_wins_only(counter, reward) == [counter EXCEPT !.wins = @ + 1]

\* counter["wins"] += 1 or counter["losses"] += 1, by the reward
bump(counter, reward) ==
    IF reward > 0 THEN [counter EXCEPT !.wins = @ + 1]
    ELSE [counter EXCEPT !.losses = @ + 1]

\* the body of the loop over move_history, for one move
record_move(g, move, reward) ==
    IF move[1] = "draw"
    THEN [g EXCEPT !.draw_stats[move[2]] = bump(@, reward)]
    ELSE IF move[1] = "discard"
    THEN LET old == IF move[2] \in DOMAIN g.discard_stats
                    THEN g.discard_stats[move[2]]
                    ELSE NoStats
         IN  [g EXCEPT !.discard_stats =
                 [k \in (DOMAIN g.discard_stats) \cup {move[2]} |->
                     IF k = move[2] THEN bump(old, reward)
                     ELSE g.discard_stats[k]]]
    ELSE g

RECURSIVE record_moves(_, _, _)
record_moves(g, moves, reward) ==
    IF moves = <<>> THEN g
    ELSE record_moves(record_move(g, Head(moves), reward), Tail(moves), reward)

\* update_2p_game with move_history.clear() outside the test of the outcome
update_2p_game_clear(g, event_text) ==
    LET g1 == process_events(g, event_text)
        outcome == detect_outcome(event_text)
        reward == IF outcome = "win" THEN 1 ELSE -1
    IN  [(IF outcome # "none"
          THEN record_moves(g1, g1.move_history, reward)
          ELSE g1) EXCEPT !.move_history = <<>>]

update_2p_game(g, event_text) ==
    LET g1 == process_events(g, event_text)
        outcome == detect_outcome(event_text)
        reward == IF outcome = "win" THEN 1 ELSE -1
    IN  IF outcome # "none"
        THEN [record_moves(g1, g1.move_history, reward)
                 EXCEPT !.move_history = <<>>]
        ELSE g1

(***************************************************************************)
(* draw.  r is the value of random.random(), in hundredths, and c the      *)
(* value of random.choice(valid_actions).                                  *)
(***************************************************************************)
\* wins / (wins + losses + 1e-5) of a is greater than that of b:
\* a.w / (a.t + e) > b.w / (b.t + e)  iff  a.w * (b.t/e + 1) > b.w * (a.t/e + 1)
RatioGreater(a, b) ==
    a.wins * ((b.wins + b.losses) * RATIO_SCALE + 1)
        > b.wins * ((a.wins + a.losses) * RATIO_SCALE + 1)

\* ratio(a) >= ratio(b)
RatioAtLeast(a, b) == ~RatioGreater(b, a)

\* any(discard[0][0] in card for card in hand)
draw_heuristic(g) ==
    IF \E i \in 1..Len(g.hand) : CharIn(FirstChar(g.discard[1]), g.hand[i])
    THEN "draw discard"
    ELSE "draw stock"

\* draw_exploit with > for >=: a tie goes against the heuristic
draw_exploit_strict(g) ==
    LET ratio_stock == g.draw_stats["draw stock"]
        ratio_discard == g.draw_stats["draw discard"]
    IN  IF draw_heuristic(g) = "draw discard"
        THEN IF RatioGreater(ratio_discard, ratio_stock)
             THEN "draw discard" ELSE "draw stock"
        ELSE IF RatioGreater(ratio_stock, ratio_discard)
             THEN "draw stock" ELSE "draw discard"

\* the else branch of the epsilon-greedy choice
draw_exploit(g) ==
    LET ratio_stock == g.draw_stats["draw stock"]
        ratio_discard == g.draw_stats["draw discard"]
    IN  IF draw_heuristic(g) = "draw discard"
        THEN IF RatioAtLeast(ratio_discard, ratio_stock)
             THEN "draw discard" ELSE "draw stock"
        ELSE IF RatioAtLeast(ratio_stock, ratio_discard)
             THEN "draw stock" ELSE "draw discard"

\* draw_branch without the early return: an empty pile goes on to the
\* epsilon-greedy choice, and explores
draw_branch_no_return(g, r) ==
    IF Len(g.discard) < 1 \/ r < g.epsilon THEN "explore"
    ELSE "exploit"

\* draw_branch with <= for <: random.random() == epsilon explores
draw_branch_le(g, r) ==
    IF Len(g.discard) < 1 THEN "empty"
    ELSE IF r <= g.epsilon THEN "explore"
    ELSE "exploit"

\* which branch of draw decides
draw_branch(g, r) ==
    IF Len(g.discard) < 1 THEN "empty"
    ELSE IF r < g.epsilon THEN "explore"
    ELSE "exploit"

draw_choice(g, r, c) ==
    CASE draw_branch(g, r) = "empty" -> "draw stock"
      [] draw_branch(g, r) = "explore" -> c
      [] OTHER -> draw_exploit(g)

\* draw whose early return on an empty pile records nothing
draw_unrecorded_empty(g, event_text, r, c) ==
    LET g1 == process_events(g, event_text)
        chosen_action == draw_choice(g1, r, c)
    IN  [g |-> IF draw_branch(g1, r) = "empty" THEN g1
               ELSE [g1 EXCEPT !.move_history = Append(@, <<"draw", chosen_action>>)],
         play |-> chosen_action,
         branch |-> draw_branch(g1, r)]

draw(g, event_text, r, c) ==
    LET g1 == process_events(g, event_text)
        chosen_action == draw_choice(g1, r, c)
    IN  [g |-> [g1 EXCEPT !.move_history = Append(@, <<"draw", chosen_action>>)],
         play |-> chosen_action,
         branch |-> draw_branch(g1, r)]


(***************************************************************************)
(* lay_down.  A Python list index i is i + 1 here.  The play string is the *)
(* sequence of the words of its split(" ").                                *)
(***************************************************************************)
\* of_a_kind_count[count] += 1, an IndexError past the end of the list
count_group(acc, count) ==
    IF count + 1 > Len(acc.of_a_kind_count)
    THEN [acc EXCEPT !.error = TRUE]
    ELSE [acc EXCEPT !.of_a_kind_count[count + 1] = @ + 1]

\* the loop over hand[1:]; acc holds of_a_kind_count, count, last_val
RECURSIVE of_a_kind_loop(_, _)
of_a_kind_loop(cards, acc) ==
    IF cards = <<>> \/ acc.error THEN acc
    ELSE LET cur_val == FirstChar(Head(cards))
             a1 == IF cur_val = acc.last_val
                   THEN [acc EXCEPT !.count = @ + 1]
                   ELSE [count_group(acc, acc.count) EXCEPT !.count = 0]
         IN  of_a_kind_loop(Tail(cards), [a1 EXCEPT !.last_val = cur_val])

\* of_a_kind_count as lay_down computes it from a non-empty hand
of_a_kind(h) ==
    LET acc == of_a_kind_loop(Tail(h),
                   [of_a_kind_count |-> <<0, 0, 0, 0>>, count |-> 0,
                    last_val |-> FirstChar(h[1]), error |-> FALSE])
    IN  IF acc.error THEN acc
        ELSE IF acc.count # 0 THEN count_group(acc, acc.count)
        ELSE acc

\* discard_stats.get(card, {"wins": 0, "losses": 0})
stats_get(discard_stats_, card) ==
    IF card \in DOMAIN discard_stats_ THEN discard_stats_[card] ELSE NoStats

\* the loop over hand that keeps the card of the best ratio; best_ratio starts
\* at -1.0, below every ratio, and is the ratio of best.stats once a card is kept
RECURSIVE best_ratio_loop(_, _, _)
best_ratio_loop(cards, discard_stats_, best) ==
    IF cards = <<>> THEN best
    ELSE LET stats == stats_get(discard_stats_, Head(cards))
             better == \/ best.candidate_discard = "None"
                       \/ RatioGreater(stats, best.stats)
         IN  best_ratio_loop(Tail(cards), discard_stats_,
                 IF better
                 THEN [candidate_discard |-> Head(cards), stats |-> stats]
                 ELSE best)

\* the candidate of the branch taken when of_a_kind_count[0] + [1] > 1
learned_candidate(h, discard_stats_) ==
    LET best == best_ratio_loop(h, discard_stats_,
                    [candidate_discard |-> "None", stats |-> NoStats])
    IN  IF best.candidate_discard = "None" THEN h[Len(h)]
        ELSE best.candidate_discard

\* the index the loop of the else branch pops: the first i, from the end, with
\* i == 0 or hand[i][0] != hand[i - 1][0]
heuristic_index(h) ==
    CHOOSE i \in 1..Len(h) :
        /\ i = 1 \/ FirstChar(h[i]) # FirstChar(h[i - 1])
        /\ \A j \in (i + 1)..Len(h) :
               ~(j = 1 \/ FirstChar(h[j]) # FirstChar(h[j - 1]))

\* whether lay_down takes the branch of the learned discard statistics
takes_learned_path(of_a_kind_count) ==
    (of_a_kind_count[1] + of_a_kind_count[2]) > 1

\* the words the while loop writes for the rest of the hand
RECURSIVE meld_words(_, _)
meld_words(cards, last_card) ==
    IF cards = <<>> THEN <<>>
    ELSE (IF Head(cards) # last_card THEN <<"meld">> ELSE <<>>)
            \o <<Head(cards)>> \o meld_words(Tail(cards), Head(cards))

\* play_string.strip() + " discard " + candidate_discard
play_words(rest, candidate_discard) ==
    LET melds == meld_words(rest, "")
    IN  (IF melds = <<>> THEN <<"">> ELSE melds)
            \o <<"discard", candidate_discard>>

lay_down(g, event_text) ==
    LET g1 == process_events(g, event_text)
        failed == [g |-> g1, status |-> "IndexError", play |-> <<>>,
                   seen |-> g1.hand, candidate_discard |-> "None",
                   path |-> "none", of_a_kind_count |-> <<>>]
    IN  IF g1.hand = <<>> THEN failed
        ELSE LET acc == of_a_kind(g1.hand)
             IN  IF acc.error THEN failed
                 ELSE LET learned == takes_learned_path(acc.of_a_kind_count)
                          cand == IF learned
                                  THEN learned_candidate(g1.hand, g1.discard_stats)
                                  ELSE g1.hand[heuristic_index(g1.hand)]
                          rest == IF learned
                                  THEN remove(g1.hand, cand)
                                  ELSE pop(g1.hand, heuristic_index(g1.hand))
                      IN  [g |-> [g1 EXCEPT
                                    !.hand = <<>>,
                                    !.move_history = Append(@, <<"discard", cand>>)],
                           status |-> "OK",
                           play |-> play_words(rest, cand),
                           seen |-> g1.hand,
                           candidate_discard |-> cand,
                           path |-> IF learned THEN "learned" ELSE "heuristic",
                           of_a_kind_count |-> acc.of_a_kind_count]


(***************************************************************************)
(* What the game server sends.                                             *)
(***************************************************************************)
\* the lines of event text
Lines ==
    {<<USER_NAME, "draws", "2S">>, <<USER_NAME, "takes", "7C">>,
     <<USER_NAME, "discards", "2S">>,
     <<"Opp", "discards", "7C">>, <<"Opp", "takes", "7C">>,
     <<USER_NAME, "wins">>, <<USER_NAME, "loses">>, <<"loss">>}

\* the event texts of more than one line
Blocks ==
    {<<<<USER_NAME, "discards", "2S">>, <<"Opp", "discards", "7C">>>>,
     <<<<"Opp", "discards", "7C">>, <<"Opp", "takes", "7C">>>>,
     <<<<USER_NAME, "takes", "7C">>, <<USER_NAME, "wins">>>>}

\* the event texts
Events == {<<>>} \cup {<<l>> : l \in Lines} \cup Blocks

\* the hands dealt, as the words of the hand string
Deals ==
    {<<"2H", "2S", "2D", "7C">>, <<"7D", "2D", "7C">>, <<"2H", "2D">>, <<"7D">>}

\* values of random.random(), in hundredths
RandomValues == {0, 10}

\* values of random.choice(valid_actions)
RandomChoices == {valid_actions[i] : i \in 1..Len(valid_actions)}

(***************************************************************************)
(* The bounds, as a condition on the globals a step leaves.                *)
(***************************************************************************)
RECURSIVE SumCounters(_, _)
SumCounters(f, keys) ==
    IF keys = {} THEN 0
    ELSE LET k == CHOOSE x \in keys : TRUE
         IN  f[k].wins + f[k].losses + SumCounters(f, keys \ {k})

TotalCount(g) ==
    SumCounters(g.draw_stats, DOMAIN g.draw_stats)
        + SumCounters(g.discard_stats, DOMAIN g.discard_stats)

NoRepeat(s) == \A i, j \in 1..Len(s) : i # j => s[i] # s[j]

\* a deck holds each card once
HandInBounds(h) == NoRepeat(h)

InBounds(g) ==
    /\ HandInBounds(g.hand)
    /\ NoRepeat(g.discard)
    /\ Len(g.move_history) + TotalCount(g) <= MaxMoves

(***************************************************************************)
(* The state machine: one action per endpoint.  resp is the last endpoint  *)
(* called and what it answered.                                            *)
(***************************************************************************)
\* event, the event text of the request, is kept by the specification of
\* single requests only
NoResp ==
    [op |-> "none", status |-> "OK", draw_play |-> "", branch |-> "",
     lay_down_play |-> <<>>, seen |-> <<>>, candidate_discard |-> "None",
     path |-> "none", of_a_kind_count |-> <<>>, outcome |-> "none",
     took |-> {}, event |-> <<>>]

\* the cards of the lines "<USER_NAME> takes <card>" of an event text
Took(event_text) ==
    {LastWord(event_text[k]) : k \in
        {i \in 1..Len(event_text) : LineHasPhrase(event_text[i], USER_NAME, "takes")}}

InitGlobals(eps) ==
    [hand |-> <<>>, discard |-> <<>>, move_history |-> <<>>,
     draw_stats |-> [a \in RandomChoices |-> NoStats],
     discard_stats |-> <<>>,
     epsilon |-> eps]

SetGlobals(g) ==
    /\ hand' = g.hand
    /\ discard' = g.discard
    /\ move_history' = g.move_history
    /\ draw_stats' = g.draw_stats
    /\ discard_stats' = g.discard_stats
    /\ epsilon' = g.epsilon

\* the globals as the module body leaves them, with the exploration rate eps
InitWith(eps) ==
    /\ hand = InitGlobals(eps).hand
    /\ discard = InitGlobals(eps).discard
    /\ move_history = InitGlobals(eps).move_history
    /\ draw_stats = InitGlobals(eps).draw_stats
    /\ discard_stats = InitGlobals(eps).discard_stats
    /\ epsilon = InitGlobals(eps).epsilon
    /\ resp = NoResp

\* a single run has no second run beside it
Init ==
    /\ InitWith(EPSILON)
    /\ twin = [g |-> <<>>, resp |-> <<>>, random |-> FALSE]

StartGameResp == [NoResp EXCEPT !.op = "start_game"]

StartHandResp == [NoResp EXCEPT !.op = "start_hand"]

UpdateResp(event_text) ==
    [NoResp EXCEPT !.op = "update", !.outcome = detect_outcome(event_text)]

DrawResp(d) ==
    [NoResp EXCEPT !.op = "draw", !.draw_play = d.play, !.branch = d.branch]

LayDownResp(l, event_text) ==
    [NoResp EXCEPT !.op = "lay_down", !.status = l.status,
                   !.lay_down_play = l.play, !.seen = l.seen,
                   !.candidate_discard = l.candidate_discard,
                   !.path = l.path, !.of_a_kind_count = l.of_a_kind_count,
                   !.took = Took(event_text)]

\* a step of this process alone: the second run stands still
StartGame ==
    \E h \in Deals :
        /\ HandInBounds(h)
        /\ SetGlobals(start_game(Globals, h))
        /\ resp' = StartGameResp
        /\ UNCHANGED twin

StartHand ==
    \E h \in Deals :
        /\ HandInBounds(h)
        /\ SetGlobals(start_hand(Globals, h))
        /\ resp' = StartHandResp
        /\ UNCHANGED twin

Update ==
    \E e \in Events :
        LET g == update_2p_game(Globals, e)
        IN  /\ InBounds(g)
            /\ SetGlobals(g)
            /\ resp' = UpdateResp(e)
            /\ UNCHANGED twin

\* random.choice is called only when random.random() < epsilon
Draw ==
    \E e \in Events, r \in RandomValues :
      \E c \in IF r < epsilon THEN RandomChoices ELSE {valid_actions[1]} :
        LET d == draw(Globals, e, r, c)
        IN  /\ InBounds(d.g)
            /\ SetGlobals(d.g)
            /\ resp' = DrawResp(d)
            /\ UNCHANGED twin

LayDown ==
    \E e \in Events :
        LET l == lay_down(Globals, e)
        IN  /\ InBounds(l.g)
            /\ HandInBounds(l.seen)
            /\ SetGlobals(l.g)
            /\ resp' = LayDownResp(l, e)
            /\ UNCHANGED twin

Next == StartGame \/ StartHand \/ Update \/ Draw \/ LayDown

Spec == Init /\ [][Next]_vars

(***************************************************************************)
(* Two runs of draw with the exploration rate 0, from the same globals and *)
(* with the same request; each run draws its own random values.  twin is   *)
(* the second run: its globals, its answer, and whether the random values  *)
(* of the two runs differed.                                               *)
(***************************************************************************)
\* the win/loss counters of the two draw actions after a game or two
DrawStatsDet ==
    [RandomChoices -> [wins : {0, 1}, losses : {0, 1}]]

\* the globals the two runs start from: a hand dealt, the pile after some
\* discards, the statistics after some games
InitGlobalsDet ==
    {[InitGlobals(0) EXCEPT !.hand = sort(h), !.discard = d, !.draw_stats = st] :
        h \in Deals \cup {<<>>},
        d \in {<<>>, <<"7C">>, <<"2S">>, <<"7C", "2S">>},
        st \in DrawStatsDet}

InitDet ==
    \E g \in InitGlobalsDet :
        /\ hand = g.hand
        /\ discard = g.discard
        /\ move_history = g.move_history
        /\ draw_stats = g.draw_stats
        /\ discard_stats = g.discard_stats
        /\ epsilon = g.epsilon
        /\ resp = NoResp
        /\ twin = [g |-> g, resp |-> NoResp, random |-> FALSE]

BothDraw ==
    \E e \in Events, r1, r2 \in RandomValues, c1, c2 \in RandomChoices :
        LET d1 == draw(Globals, e, r1, c1)
            d2 == draw(twin.g, e, r2, c2)
        IN  /\ HandInBounds(d1.g.hand)
            /\ NoRepeat(d1.g.discard)
            /\ Len(d1.g.move_history) <= MaxMoves
            /\ SetGlobals(d1.g)
            /\ resp' = DrawResp(d1)
            /\ twin' = [g |-> d2.g, resp |-> DrawResp(d2),
                        random |-> (r1 # r2 \/ c1 # c2)]

NextDet == BothDraw

SpecDet == InitDet /\ [][NextDet]_vars

(***************************************************************************)
(* One request to update_2p_game, draw or lay_down, applied to globals     *)
(* drawn from the ones earlier requests leave.  resp keeps the event text  *)
(* of the request and the outcome its text holds.                          *)
(***************************************************************************)
\* hands dealt beside Deals: a single below a triple; a card reported twice
DealsReq ==
    {<<"2D", "7C", "7D", "7H">>, <<"2D", "2D", "7C", "7C">>,
     <<"2H", "2S", "2D", "7C", "7D">>}

\* the hand after start_game or start_hand, or after a lay_down
HandsReq == {sort(h) : h \in Deals \cup DealsReq} \cup {<<>>}

\* the pile after some "discards" lines
PilesReq == {<<>>, <<"7C">>, <<"2S", "7C">>}

\* the log after some draw and lay_down requests
HistoriesReq ==
    {<<>>, <<<<"draw", "draw stock">>>>,
     <<<<"draw", "draw discard">>, <<"discard", "7C">>>>}

\* discard_stats after some games
DiscardStatsReq ==
    {<<>>, "7C" :> [wins |-> 1, losses |-> 0],
     "2D" :> [wins |-> 0, losses |-> 1] @@ "7D" :> [wins |-> 1, losses |-> 0]}

\* draw_stats after some games
DrawStatsReq ==
    {[a \in RandomChoices |-> NoStats],
     [a \in RandomChoices |->
         IF a = "draw stock" THEN [wins |-> 1, losses |-> 0] ELSE NoStats]}

InitGlobalsReq ==
    {[InitGlobals(EPSILON) EXCEPT !.hand = h, !.discard = d,
                                  !.move_history = m, !.draw_stats = st,
                                  !.discard_stats = ds] :
        h \in HandsReq, d \in PilesReq, m \in HistoriesReq,
        st \in DrawStatsReq, ds \in DiscardStatsReq}

InitReq ==
    \E g \in InitGlobalsReq :
        /\ hand = g.hand
        /\ discard = g.discard
        /\ move_history = g.move_history
        /\ draw_stats = g.draw_stats
        /\ discard_stats = g.discard_stats
        /\ epsilon = g.epsilon
        /\ resp = NoResp
        /\ twin = [g |-> <<>>, resp |-> <<>>, random |-> FALSE]

\* the answer, with the request it answers
WithRequest(r, event_text) ==
    [r EXCEPT !.event = event_text, !.outcome = detect_outcome(event_text)]

ReqUpdate ==
    \E e \in Events :
        /\ resp.op = "none"
        /\ SetGlobals(update_2p_game(Globals, e))
        /\ resp' = WithRequest(UpdateResp(e), e)
        /\ UNCHANGED twin

ReqDraw ==
    \E e \in Events, r \in RandomValues :
      \E c \in IF r < epsilon THEN RandomChoices ELSE {valid_actions[1]} :
        LET d == draw(Globals, e, r, c)
        IN  /\ resp.op = "none"
            /\ SetGlobals(d.g)
            /\ resp' = WithRequest(DrawResp(d), e)
            /\ UNCHANGED twin

ReqLayDown ==
    \E e \in Events :
        LET l == lay_down(Globals, e)
        IN  /\ resp.op = "none"
            /\ SetGlobals(l.g)
            /\ resp' = WithRequest(LayDownResp(l, e), e)
            /\ UNCHANGED twin

NextReq == ReqUpdate \/ ReqDraw \/ ReqLayDown

SpecReq == InitReq /\ [][NextReq]_vars

(***************************************************************************)
(* The claims.                                                             *)
(***************************************************************************)
\* the other draw action
OtherAction(a) == IF a = "draw stock" THEN "draw discard" ELSE "draw stock"

\* wins/(wins+losses+1e-5) of a is strictly higher than that of b
StrictlyHigher(a, b) ==
    a.wins * (RATIO_SCALE * (b.wins + b.losses) + 1)
        > b.wins * (RATIO_SCALE * (a.wins + a.losses) + 1)

\* the ranks of the cards of a list
Ranks(cards) == {FirstChar(cards[i]) : i \in 1..Len(cards)}

\* how many cards of a list have the rank rk
RankSize(cards, rk) == Cardinality({i \in 1..Len(cards) : FirstChar(cards[i]) = rk})

\* how many times the move <<kind, key>> is in a move log
Recorded(moves, kind, key) ==
    Cardinality({i \in 1..Len(moves) : moves[i] = <<kind, key>>})

\* how many times a word is in a list of words
WordCount(words, w) == Cardinality({i \in 1..Len(words) : words[i] = w})

\* C1: a draw-phase request answers "draw stock" or "draw discard", and
\* "draw stock" whenever the discard pile is empty once the events of the
\* request are applied, whatever the random source gives.
C1_DrawStockOnEmptyPile ==
    resp.op = "draw" =>
        /\ resp.draw_play \in {"draw stock", "draw discard"}
        /\ discard = <<>> => resp.draw_play = "draw stock"

C1_Witness ==
    /\ resp.op = "draw"
    /\ hand = <<"2D", "2H", "2S", "7C">>
    /\ discard = <<>>
    /\ resp.draw_play = "draw stock"

\* C2: the lay-down play has the word "meld" once per rank left in the hand
\* after the discard, each followed by the cards of that rank in sorted
\* order, and ends with "discard <card>".
C2_OneMeldPerRank ==
    (resp.op = "lay_down" /\ resp.status = "OK") =>
        LET rest == remove(resp.seen, resp.candidate_discard)
            n == Len(resp.lay_down_play)
        IN  /\ WordCount(resp.lay_down_play, "meld") = Cardinality(Ranks(rest))
            /\ n >= 2
            /\ resp.lay_down_play[n - 1] = "discard"
            /\ resp.lay_down_play[n] = resp.candidate_discard

\* C3: when draw exploits, it answers the heuristic suggestion ("draw discard"
\* iff the rank of the pile top is the rank of a card in hand) unless the
\* other action has a strictly higher win ratio; a tie goes to the heuristic.
C3_ExploitChoice ==
    (resp.op = "draw" /\ resp.branch = "exploit") =>
        LET suggestion == IF FirstChar(discard[1]) \in Ranks(hand)
                          THEN "draw discard" ELSE "draw stock"
            other == OtherAction(suggestion)
        IN  resp.draw_play =
                IF StrictlyHigher(draw_stats[other], draw_stats[suggestion])
                THEN other ELSE suggestion

\* the statistics overrule the heuristic
C3_Witness ==
    /\ resp.op = "draw"
    /\ resp.branch = "exploit"
    /\ FirstChar(discard[1]) \in Ranks(hand)
    /\ resp.draw_play = "draw stock"

\* C4: an update whose text holds an outcome adds, for every move of the log,
\* 1 to the wins (a win) or the losses (a loss) of the move's draw action or
\* discarded card, changes no other counter, and leaves the log empty.
C4_OutcomeCredited ==
    [][(resp'.op = "update" /\ resp'.outcome # "none") =>
        LET won == IF resp'.outcome = "win" THEN 1 ELSE 0
        IN  /\ DOMAIN draw_stats' = DOMAIN draw_stats
            /\ \A a \in DOMAIN draw_stats :
                 /\ draw_stats'[a].wins =
                        draw_stats[a].wins + won * Recorded(move_history, "draw", a)
                 /\ draw_stats'[a].losses =
                        draw_stats[a].losses
                            + (1 - won) * Recorded(move_history, "draw", a)
            /\ DOMAIN discard_stats' \subseteq Cards
            /\ \A c \in Cards :
                 /\ stats_get(discard_stats', c).wins =
                        stats_get(discard_stats, c).wins
                            + won * Recorded(move_history, "discard", c)
                 /\ stats_get(discard_stats', c).losses =
                        stats_get(discard_stats, c).losses
                            + (1 - won) * Recorded(move_history, "discard", c)
            /\ move_history' = <<>>]_vars

\* a loss credited to a draw and to a discard
C4_Witness ==
    /\ resp.op = "update"
    /\ resp.outcome = "loss"
    /\ move_history = <<>>
    /\ draw_stats["draw stock"] = [wins |-> 0, losses |-> 1]
    /\ \E c \in DOMAIN discard_stats : discard_stats[c] = [wins |-> 0, losses |-> 1]

\* C5: right after a game-start notification the move log and the discard
\* pile are empty.
C5_StartGameClearsLog ==
    resp.op = "start_game" => (move_history = <<>> /\ discard = <<>>)

\* C6: right after a hand-start notification the discard pile is empty.
C6_StartHandClearsPile == resp.op = "start_hand" => discard = <<>>

\* C7: the of-a-kind profile of a lay-down counts, for each g in 1..4, the
\* ranks that have exactly g cards in the hand.
C7_ProfileCountsGroups ==
    (resp.op = "lay_down" /\ resp.status = "OK") =>
        \A g \in 1..4 :
            resp.of_a_kind_count[g] =
                Cardinality({rk \in Ranks(resp.seen) : RankSize(resp.seen, rk) = g})

\* C8: no operation lowers a wins or a losses counter, or drops a key of the
\* statistics.
C8_CountersNeverDecrease ==
    [][/\ \A a \in DOMAIN draw_stats :
            /\ a \in DOMAIN draw_stats'
            /\ draw_stats'[a].wins >= draw_stats[a].wins
            /\ draw_stats'[a].losses >= draw_stats[a].losses
       /\ \A c \in DOMAIN discard_stats :
            /\ c \in DOMAIN discard_stats'
            /\ discard_stats'[c].wins >= discard_stats[c].wins
            /\ discard_stats'[c].losses >= discard_stats[c].losses]_vars

\* the statistics of an earlier game, after the start of the next
C8_Witness ==
    /\ resp.op = "start_game"
    /\ draw_stats["draw stock"].wins > 0
    /\ DOMAIN discard_stats # {}

\* C9: with the exploration rate 0, two runs of draw from the same globals
\* with the same request give the same play and leave the same globals,
\* whatever their random values.
C9_DrawDeterministic == twin.g = Globals /\ twin.resp = resp

\* two draws on a non-empty pile with different random values
C9_Witness ==
    /\ resp.op = "draw"
    /\ twin.random
    /\ discard # <<>>
    /\ resp.draw_play = "draw discard"

\* C10: a lay-down that follows the answer "draw discard" and whose events
\* say the player took the pile's top card X does not discard X, when the
\* hand holds another card.
C10_NoReDiscard ==
    [][(/\ resp.op = "draw"
        /\ resp.draw_play = "draw discard"
        /\ resp'.op = "lay_down"
        /\ resp'.status = "OK"
        /\ resp'.took = {discard[1]}
        /\ Len(resp'.seen) >= 2)
       => resp'.candidate_discard # discard[1]]_vars

\* the card at index i of a rank-sorted hand differs in rank from both of its
\* neighbours, from its single neighbour at an edge of the hand
IsSingleAt(h, i) ==
    /\ i = 1 \/ FirstChar(h[i]) # FirstChar(h[i - 1])
    /\ i = Len(h) \/ FirstChar(h[i]) # FirstChar(h[i + 1])

\* C11: on the adjacency path of a lay-down the discarded card is the
\* highest-sorted card whose rank differs from both of its neighbours; so when
\* the hand has a card whose rank no other card shares, the discarded card is
\* such a card and no pair or larger group is broken.
C11_AdjacencyDiscard ==
    (resp.op = "lay_down" /\ resp.status = "OK" /\ resp.path = "heuristic") =>
        LET singles == {i \in 1..Len(resp.seen) : IsSingleAt(resp.seen, i)}
        IN  singles # {} =>
                /\ \E i \in singles :
                       /\ \A j \in singles : j <= i
                       /\ resp.candidate_discard = resp.seen[i]
                /\ RankSize(resp.seen, FirstChar(resp.candidate_discard)) = 1

\* profile[0] + 2*profile[1]: singles plus pairs weighted double
meldability_score(profile) == profile[1] + 2 * profile[2]

\* C12: a lay-down takes the path of the learned statistics exactly when the
\* meldability score of its profile is greater than 1, and the adjacency path
\* otherwise; a hand that is one pair has the score 2 and takes the learned
\* path.
C12_LearnedPathByScore ==
    (resp.op = "lay_down" /\ resp.status = "OK") =>
        /\ resp.path \in {"learned", "heuristic"}
        /\ resp.path = "learned" <=> meldability_score(resp.of_a_kind_count) > 1

\* the indices of the cards of a hand whose rank exactly two cards have
PairCards(h) == {i \in 1..Len(h) : RankSize(h, FirstChar(h[i])) = 2}

\* C13: on the path of the learned statistics the discarded card is the first
\* card, in hand order, of the highest win ratio among the cards of a rank
\* group of exactly 2; when no card is in such a group it is the last card of
\* the hand.
C13_LearnedDiscardAmongPairs ==
    (resp.op = "lay_down" /\ resp.status = "OK" /\ resp.path = "learned") =>
        LET h == resp.seen
            ratio(i) == stats_get(discard_stats, h[i])
        IN  IF PairCards(h) = {}
            THEN resp.candidate_discard = h[Len(h)]
            ELSE \E i \in PairCards(h) :
                    /\ resp.candidate_discard = h[i]
                    /\ \A j \in PairCards(h) :
                           /\ ~StrictlyHigher(ratio(j), ratio(i))
                           /\ j < i => StrictlyHigher(ratio(i), ratio(j))

\* an event text has a line with "win" or "loss" in it, in any case
HasOutcomeLine(event_text) ==
    TextLowerContains(event_text, "win") \/ TextLowerContains(event_text, "loss")

\* C14: whenever the event text of an update, a draw or a lay-down request has
\* a line with "win" or "loss" in it, the moves pending in the log are credited
\* to the counters and removed from the log before the operation returns (the
\* log then holds at most the decision of the request itself).
C14_OutcomeHandledEverywhere ==
    [][(resp'.op \in {"update", "draw", "lay_down"} /\ HasOutcomeLine(resp'.event)) =>
        LET won == IF TextLowerContains(resp'.event, "win") THEN 1 ELSE 0
        IN  /\ \A a \in DOMAIN draw_stats :
                 /\ draw_stats'[a].wins =
                        draw_stats[a].wins + won * Recorded(move_history, "draw", a)
                 /\ draw_stats'[a].losses =
                        draw_stats[a].losses
                            + (1 - won) * Recorded(move_history, "draw", a)
            /\ \A c \in Cards :
                 /\ stats_get(discard_stats', c).wins =
                        stats_get(discard_stats, c).wins
                            + won * Recorded(move_history, "discard", c)
                 /\ stats_get(discard_stats', c).losses =
                        stats_get(discard_stats, c).losses
                            + (1 - won) * Recorded(move_history, "discard", c)
            /\ Len(move_history') <= IF resp'.op = "update" THEN 0 ELSE 1]_vars

\* C15: a lay-down on a non-empty hand names, in its melds and its discard
\* together, exactly the cards of the hand as it stood once the events of the
\* request were applied, each token as often as the hand holds it; the
\* discarded card is one of them, and the hand is empty afterwards.
C15_CardConservation ==
    (resp.op = "lay_down" /\ resp.seen # <<>>) =>
        LET n == Len(resp.lay_down_play)
        IN  /\ resp.status = "OK"
            /\ \A c \in Cards :
                   WordCount(resp.lay_down_play, c) = WordCount(resp.seen, c)
            /\ \A k \in 1..n :
                   resp.lay_down_play[k] \in Cards \cup {"meld", "discard", ""}
            /\ n >= 2
            /\ resp.lay_down_play[n - 1] = "discard"
            /\ resp.lay_down_play[n] = resp.candidate_discard
            /\ WordCount(resp.seen, resp.candidate_discard) >= 1
            /\ WordCount(SubSeq(resp.lay_down_play, 1, n - 2), "discard") = 0
            /\ hand = <<>>

\* a hand that holds two cards twice, one of them discarded
C15_Witness ==
    /\ resp.op = "lay_down"
    /\ resp.seen = <<"2D", "2D", "7C", "7C">>
    /\ resp.path = "learned"
    /\ resp.candidate_discard = "2D"
    /\ resp.lay_down_play = <<"meld", "2D", "meld", "7C", "7C", "discard", "2D">>
    /\ hand = <<>>

\* C16: a lay-down request that finds the hand empty once its events are
\* applied is answered by a policy of the program, and never by an index past
\* the end of the hand.
C16_EmptyHandPolicy ==
    (resp.op = "lay_down" /\ resp.seen = <<>>) => resp.status # "IndexError"

\* C17: a draw request appends exactly one move, ("draw", the play answered),
\* to the log, on each of its branches; a lay-down request on a non-empty hand
\* appends exactly one move, ("discard", the card discarded); no other
\* operation appends to the log.
C17_EveryDecisionRecorded ==
    [][/\ resp'.op = "draw" =>
              move_history' = Append(move_history, <<"draw", resp'.draw_play>>)
       /\ (resp'.op = "lay_down" /\ resp'.seen # <<>>) =>
              /\ resp'.candidate_discard \in Cards
              /\ move_history' =
                     Append(move_history, <<"discard", resp'.candidate_discard>>)
       /\ (resp'.op \in {"start_game", "start_hand", "update"}
              \/ (resp'.op = "lay_down" /\ resp'.seen = <<>>)) =>
              move_history' \in {move_history, <<>>}]_vars

\* a game of one turn: a draw from the pile, then a lay-down
C17_Witness ==
    /\ resp.op = "lay_down"
    /\ resp.status = "OK"
    /\ move_history =
           <<<<"draw", "draw discard">>, <<"discard", resp.candidate_discard>>>>

\* a stack, its top at index 1, after the lines of an event text in order: a
\* line with "discards" pushes its last word, a line with "takes" pops the top
\* of a non-empty stack and leaves an empty one alone
RECURSIVE PileAfter(_, _)
PileAfter(pile, event_text) ==
    IF event_text = <<>> THEN pile
    ELSE LET line == Head(event_text)
             words == {line[i] : i \in 1..Len(line)}
             pushed == IF "discards" \in words
                       THEN <<line[Len(line)]>> \o pile ELSE pile
             popped == IF "takes" \in words /\ pushed # <<>>
                       THEN SubSeq(pushed, 2, Len(pushed)) ELSE pushed
         IN  PileAfter(popped, Tail(event_text))

\* C18: an update, a draw or a lay-down request leaves the discard pile as the
\* stack its event lines make of it, applied in order: "discards" pushes the
\* trailing token on top (index 0), "takes" removes the top of a non-empty pile
\* and is a no-op on an empty one; the decision itself changes nothing of it.
C18_PileIsStackOfEvents ==
    [][resp'.op \in {"update", "draw", "lay_down"} =>
           discard' = PileAfter(discard, resp'.event)]_vars

\* two discards in one request, the later one on top
C18_Witness ==
    /\ resp.op = "draw"
    /\ resp.event = <<<<USER_NAME, "discards", "2S">>, <<"Opp", "discards", "7C">>>>
    /\ discard = <<"7C", "2S", "7C">>

\* a list of tokens ascends in the lexical order of the tokens
Ascending(h) == \A i \in 1..(Len(h) - 1) : ~StrLess(h[i + 1], h[i])

\* C19: after every operation the hand is sorted ascending by the lexical
\* order of the card tokens.
C19_HandSorted == Ascending(hand)

\* a card drawn into the middle of the hand
C19_Witness ==
    /\ resp.op = "update"
    /\ hand = <<"2D", "2S", "7C", "7D">>

\* C20: an update whose text has none of "win", "loss", "lose", in any case,
\* leaves the statistics and the move log as they were; only the hand and the
\* discard pile may change.
C20_UpdateWithoutOutcome ==
    [][(/\ resp'.op = "update"
        /\ ~TextLowerContains(resp'.event, "win")
        /\ ~TextLowerContains(resp'.event, "loss")
        /\ ~TextLowerContains(resp'.event, "lose"))
       => UNCHANGED <<move_history, draw_stats, discard_stats, epsilon>>]_vars

\* an update that changed the hand and the pile, beside a log and statistics
C20_Witness ==
    /\ resp.op = "update"
    /\ resp.event = <<<<USER_NAME, "takes", "7C">>>>
    /\ hand = <<"2D", "7C", "7C", "7D">>
    /\ discard = <<"7C">>
    /\ Len(move_history) = 2
    /\ DOMAIN discard_stats # {}

====
